---- MODULE Spec2Model ----
(***************************************************************************)
(* Model of the background-execution / result-delivery core of the        *)
(* Tkinter AI GUI (src/gui.py) and of its two model adapters              *)
(* (src/models.py, src/utils.py).                                         *)
(*                                                                         *)
(* The UI thread runs the button callbacks and the poll tick; every task  *)
(* runs on its own worker thread.  A worker is a small program with a      *)
(* thread-level position pc[w] and a stack call[w] of adapter method       *)
(* frames (load, run).  Each action is one step of one thread: a read or   *)
(* a write of shared state (an adapter's _is_loaded / _pipeline, the       *)
(* generated file, the result queue) or one call into the external model   *)
(* libraries, whose failures are a nondeterministic choice.                *)
(* Widgets are not modelled; what the poll tick hands to its handlers is   *)
(* recorded in the history variable dispatched.  The model covers the      *)
(* life of the window: File > Exit ends the process and with it every      *)
(* behaviour.                                                              *)
(***************************************************************************)
EXTENDS Naturals, Sequences, FiniteSets, TLC

\* ------------------------------------------------------------ bounds
\* Worker threads started during one run (gui.py starts one per click).
MaxWorkers == 2

\* ------------------------------------------------------------ registry
T2I == "Text-to-Image"
CLS == "Image Classification"

\* self._models, a dict: iteration follows insertion order.
Registry == <<T2I, CLS>>

ModelNames == {Registry[i] : i \in 1..Len(Registry)}

\* detect_device: the three strings it can return.
Devices == {"cpu", "cuda", "mps"}

\* What the text box can hold after .strip(): empty, or a prompt.
Prompts == {"", "a cat"}

\* The image the user can pick with Browse, and the file text-to-image writes.
InputPath == "/home/user/photo.png"
GeneratedPath == "/cwd/generated_image.png"

\* save_pil_image's default file name, resolved by os.path.abspath.
abspath(path) == IF path = "generated_image.png" THEN GeneratedPath ELSE path

Workers == 1..MaxWorkers

\* ------------------------------------------------------------ values
\* self._pipeline = None
NoPipeline == [id |-> 0, dtype |-> "none"]

NoImage == [prompt |-> "", by |-> 0]
\* The picture in the user's own file.
UserImage == [prompt |-> "photo", by |-> 0]

NoFrameValue == [type |-> "none"]

\* A Python list, a dict with its keys in insertion order, and a str.
PyList(items) == [py |-> "list", items |-> items]
PyStr(s) == [py |-> "str", s |-> s]
ClsEntry(label, score) ==
    [py |-> "dict", keys |-> <<"label", "score">>, label |-> label, score |-> score]

\* The external image-classification pipeline: an ordered list of
\* {label, score} entries determined by the image (scores in thousandths).
Classify(image) ==
    PyList(<<ClsEntry(image.prompt, 910), ClsEntry("other", 50)>>)

\* ------------------------------------------------------------ state
VARIABLES
    device,          \* AIGUI._device
    diffusers,       \* TRUE iff models.StableDiffusionPipeline is not None
    is_loaded,       \* BaseModel._is_loaded, per adapter
    pipeline,        \* BaseModel._pipeline, per adapter
    init_calls,      \* history: calls of from_pretrained / hf_pipeline per adapter
    generated_file,  \* the image stored in generated_image.png
    task,            \* per worker: the thread's target and arguments
    pc,              \* per worker: position in the thread function
    call,            \* per worker: stack of adapter method frames, innermost first
    locals,          \* per worker: local variables of the thread function
    ret,             \* per worker: value returned by the last adapter run
    calls,           \* history: adapter methods each worker called
    returned,        \* history: what each adapter run of a worker returned
    failed,          \* history: the adapter calls of a worker that raised
    pushed,          \* history: outcomes each worker put on the queue
    nthreads,        \* worker threads started so far
    result_queue,    \* AIGUI._result_queue
    poll_scheduled,  \* an after(200, _poll_results) timer is pending
    poll_running,    \* _poll_results is executing on the UI thread
    tick_start,      \* history: queue contents when the running tick began
    tick_log,        \* history: outcomes handed to handlers by the running tick
    tick_pushed,     \* history: a worker put an outcome during the running tick
    dispatched       \* history: every handler invocation so far

adapterVars == <<is_loaded, pipeline, init_calls, generated_file>>
workerVars == <<task, pc, call, locals, ret, calls, returned, failed, pushed, nthreads>>
pollVars == <<poll_scheduled, poll_running, tick_start, tick_log, dispatched>>
vars == <<device, diffusers, is_loaded, pipeline, init_calls, generated_file,
          task, pc, call, locals, ret, calls, returned, failed, pushed, nthreads,
          result_queue, poll_scheduled, poll_running, tick_start, tick_log,
          tick_pushed, dispatched>>

NoTask == [kind |-> "idle", name |-> "", input |-> ""]
NoLocals == [idx |-> 1, errors |-> <<>>, img_path |-> "", exc |-> ""]

\* ------------------------------------------------------------ frames
Frame(fn, m, dev, arg) ==
    [fn |-> fn, model |-> m, pc |-> "check", device |-> dev, arg |-> arg,
     tmp |-> NoPipeline, image |-> NoImage]

Top(w) == Head(call[w])
InFrame(w, fn, label) ==
    /\ call[w] # <<>>
    /\ Top(w).fn = fn
    /\ Top(w).pc = label

\* The frame on top moves to another statement.
Goto(w, label) == [call EXCEPT ![w] = <<[Top(w) EXCEPT !.pc = label]>> \o Tail(call[w])]

\* A chain that does not abort: after a failure the thread goes on to classify.
ExceptLabel_continue(kind) ==
    CASE kind = "loadOne" -> "lm_except"
      [] kind = "loadAll" -> "la_except"
      [] kind = "runOne" -> "rm_except"
      [] kind = "chain" -> "ch_run2"
      [] kind \in {"callLoad", "callRun"} -> "dc_raised"

\* A task that retries: after a failure the thread starts over.
ExceptLabel_retry(kind) ==
    CASE kind = "loadOne" -> "lm_load"
      [] kind = "loadAll" -> "la_except"
      [] kind = "runOne" -> "rm_check"
      [] kind = "chain" -> "ch_except"
      [] kind \in {"callLoad", "callRun"} -> "dc_raised"

\* Where an exception raised inside an adapter call lands: the except clause
\* of the thread function that made the call; a caller that uses the adapter
\* directly has none and the exception propagates to it.
ExceptLabel(kind) ==
    CASE kind = "loadOne" -> "lm_except"
      [] kind = "loadAll" -> "la_except"
      [] kind = "runOne" -> "rm_except"
      [] kind = "chain" -> "ch_except"
      [] kind \in {"callLoad", "callRun"} -> "dc_raised"

\* raise: every frame of the worker is unwound, the thread continues in its
\* except clause with the exception's text.
Raise(w, e) ==
    /\ call' = [call EXCEPT ![w] = <<>>]
    /\ pc' = [pc EXCEPT ![w] = ExceptLabel(task[w].kind)]
    /\ locals' = [locals EXCEPT ![w].exc = e]
    /\ failed' = [failed EXCEPT ![w] =
            Append(@, [model |-> Top(w).model, ncalls |-> Len(calls[w])])]

\* The put of one outcome by worker w.  w and seq identify the outcome in the
\* history variables; the program's tuple is (kind, payload).
Outcome(w, kind, payload) ==
    [kind |-> kind, payload |-> payload, w |-> w, seq |-> Len(pushed[w]) + 1]

Put(w, kind, payload) ==
    /\ result_queue' = Append(result_queue, Outcome(w, kind, payload))
    /\ pushed' = [pushed EXCEPT ![w] = Append(@, Outcome(w, kind, payload))]
    /\ tick_pushed' = poll_running

CallAdapter(w, fn, m, dev, arg) ==
    /\ call' = [call EXCEPT ![w] = <<Frame(fn, m, dev, arg)>> \o @]
    /\ calls' = [calls EXCEPT ![w] = Append(@, [fn |-> fn, model |-> m, arg |-> arg])]

\* ------------------------------------------------------------ adapters
\* Left alone by every step inside an adapter method.
frameFixed == <<device, diffusers, task, pushed, nthreads, result_queue,
                tick_pushed, poll_scheduled, poll_running, tick_start, tick_log,
                dispatched>>

Continue(w, label) ==
    /\ call' = Goto(w, label)
    /\ UNCHANGED <<pc, locals, failed>>

\* return None from load
ReturnNone(w) ==
    /\ call' = [call EXCEPT ![w] = Tail(@)]
    /\ UNCHANGED <<pc, locals, failed, ret, returned>>

\* return value from run; image is the picture the call generated or read
ReturnValue(w, value, image) ==
    /\ call' = [call EXCEPT ![w] = Tail(@)]
    /\ ret' = [ret EXCEPT ![w] = value]
    /\ returned' = [returned EXCEPT ![w] =
            Append(@, [model |-> Top(w).model, arg |-> Top(w).arg,
                       value |-> value, image |-> image])]
    /\ UNCHANGED <<pc, locals, failed>>

\* A load that also returns at once while another thread is loading the
\* adapter.
AlreadyLoaded_or_loading(m) ==
    \/ is_loaded[m]
    \/ \E v \in Workers :
           /\ call[v] # <<>>
           /\ Top(v).fn = "load"
           /\ Top(v).model = m
           /\ Top(v).pc # "check"

\* A load without its guard.
AlreadyLoaded_never(m) == FALSE

\* `if self._is_loaded: return`, the first statement of both load methods.
AlreadyLoaded(m) == is_loaded[m]

\* torch_dtype chosen by TextToImageModel.load
dtype_for(dev) == IF dev \in {"cuda", "mps"} THEN "float16" ELSE "float32"

\* The object a successful from_pretrained / hf_pipeline call creates.
NewPipeline(m, dt) == [id |-> init_calls[m] + 1, dtype |-> dt]

\* TextToImageModel.load, lines 71-74
T2ILoadCheck(w) ==
    /\ InFrame(w, "load", "check")
    /\ Top(w).model = T2I
    /\ \/ /\ AlreadyLoaded(T2I)
          /\ ReturnNone(w)
       \/ /\ ~AlreadyLoaded(T2I)
          /\ ~diffusers
          /\ Raise(w, "diffusers not installed or unavailable")
          /\ UNCHANGED <<ret, returned>>
       \/ /\ ~AlreadyLoaded(T2I)
          /\ diffusers
          /\ Continue(w, "init")
          /\ UNCHANGED <<ret, returned>>
    /\ UNCHANGED <<adapterVars, calls, frameFixed>>

\* TextToImageModel.load, lines 75-77: from_pretrained succeeds or raises
T2ILoadInit(w) ==
    /\ InFrame(w, "load", "init")
    /\ Top(w).model = T2I
    /\ init_calls' = [init_calls EXCEPT ![T2I] = @ + 1]
    /\ \/ /\ pipeline' = [pipeline EXCEPT ![T2I] = NewPipeline(T2I, dtype_for(Top(w).device))]
          /\ Continue(w, "to")
       \/ /\ Raise(w, "from_pretrained failed")
          /\ UNCHANGED pipeline
    /\ UNCHANGED <<is_loaded, generated_file, ret, returned, calls, frameFixed>>

\* TextToImageModel.load, line 79, right-hand side: self._pipeline is read and
\* moved to the device; .to returns the pipeline it was called on, or raises
T2ILoadTo(w) ==
    /\ InFrame(w, "load", "to")
    /\ Top(w).model = T2I
    /\ \/ /\ call' = [call EXCEPT ![w] =
                    <<[Top(w) EXCEPT !.pc = "store", !.tmp = pipeline[T2I]]>> \o Tail(@)]
          /\ UNCHANGED <<pc, locals, failed>>
       \/ Raise(w, "to(device) failed")
    /\ UNCHANGED <<adapterVars, ret, returned, calls, frameFixed>>

\* TextToImageModel.load, line 79, the assignment
T2ILoadStore(w) ==
    /\ InFrame(w, "load", "store")
    /\ Top(w).model = T2I
    /\ pipeline' = [pipeline EXCEPT ![T2I] = Top(w).tmp]
    /\ Continue(w, "flag")
    /\ UNCHANGED <<is_loaded, init_calls, generated_file, ret, returned, calls, frameFixed>>

\* TextToImageModel.load, line 80
T2ILoadFlag(w) ==
    /\ InFrame(w, "load", "flag")
    /\ Top(w).model = T2I
    /\ is_loaded' = [is_loaded EXCEPT ![T2I] = TRUE]
    /\ ReturnNone(w)
    /\ UNCHANGED <<pipeline, init_calls, generated_file, calls, frameFixed>>

\* ImageClassificationModel.load, lines 106-107
ClsLoadCheck(w) ==
    /\ InFrame(w, "load", "check")
    /\ Top(w).model = CLS
    /\ \/ /\ AlreadyLoaded(CLS)
          /\ ReturnNone(w)
       \/ /\ ~AlreadyLoaded(CLS)
          /\ Continue(w, "init")
          /\ UNCHANGED <<ret, returned>>
    /\ UNCHANGED <<adapterVars, calls, frameFixed>>

\* ImageClassificationModel.load, line 110: hf_pipeline succeeds or raises
ClsLoadInit(w) ==
    /\ InFrame(w, "load", "init")
    /\ Top(w).model = CLS
    /\ init_calls' = [init_calls EXCEPT ![CLS] = @ + 1]
    /\ \/ /\ pipeline' = [pipeline EXCEPT ![CLS] = NewPipeline(CLS, "float32")]
          /\ Continue(w, "flag")
       \/ /\ Raise(w, "hf_pipeline failed")
          /\ UNCHANGED pipeline
    /\ UNCHANGED <<is_loaded, generated_file, ret, returned, calls, frameFixed>>

\* ImageClassificationModel.load, line 111
ClsLoadFlag(w) ==
    /\ InFrame(w, "load", "flag")
    /\ Top(w).model = CLS
    /\ is_loaded' = [is_loaded EXCEPT ![CLS] = TRUE]
    /\ ReturnNone(w)
    /\ UNCHANGED <<pipeline, init_calls, generated_file, calls, frameFixed>>

\* A run without the implicit load.
RunCheck_noload(w) ==
    /\ InFrame(w, "run", "check")
    /\ Continue(w, "invoke")
    /\ UNCHANGED <<adapterVars, ret, returned, calls, frameFixed>>

\* `if not self._is_loaded: self.load(...)`, the first statement of both run
\* methods: the default device is "cpu" in both.
RunCheck(w) ==
    /\ InFrame(w, "run", "check")
    /\ \/ /\ ~is_loaded[Top(w).model]
          /\ call' = [call EXCEPT ![w] =
                    <<Frame("load", Top(w).model, "cpu", "")>>
                    \o <<[Top(w) EXCEPT !.pc = "invoke"]>> \o Tail(@)]
          /\ calls' = [calls EXCEPT ![w] =
                    Append(@, [fn |-> "load", model |-> Top(w).model, arg |-> ""])]
          /\ UNCHANGED <<pc, locals, failed>>
       \/ /\ is_loaded[Top(w).model]
          /\ Continue(w, "invoke")
          /\ UNCHANGED calls
    /\ UNCHANGED <<adapterVars, ret, returned, frameFixed>>

\* TextToImageModel.run, lines 91-92: output = self._pipeline(prompt)
T2IRunInvoke(w) ==
    /\ InFrame(w, "run", "invoke")
    /\ Top(w).model = T2I
    /\ \/ /\ pipeline[T2I] = NoPipeline
          /\ Raise(w, "'NoneType' object is not callable")
       \/ /\ pipeline[T2I] # NoPipeline
          /\ Raise(w, "inference failed")
       \/ /\ pipeline[T2I] # NoPipeline
          /\ call' = [call EXCEPT ![w] =
                    <<[Top(w) EXCEPT !.pc = "save",
                                     !.image = [prompt |-> Top(w).arg, by |-> w]]>>
                    \o Tail(@)]
          /\ UNCHANGED <<pc, locals, failed>>
    /\ UNCHANGED <<adapterVars, ret, returned, calls, frameFixed>>

\* utils.save_pil_image: image.save(path); return os.path.abspath(path)
save_pil_image(image, path) == [file |-> image, path |-> abspath(path)]

\* TextToImageModel.run, lines 93-94
T2IRunSave(w) ==
    /\ InFrame(w, "run", "save")
    /\ Top(w).model = T2I
    /\ \/ /\ Raise(w, "image.save failed")
          /\ UNCHANGED <<generated_file, ret, returned>>
       \/ LET saved == save_pil_image(Top(w).image, "generated_image.png")
          IN  /\ generated_file' = saved.file
              /\ ReturnValue(w, [py |-> "dict", keys |-> <<"type", "path", "pil_image">>,
                                 type |-> "image", path |-> saved.path,
                                 pil_image |-> Top(w).image],
                             Top(w).image)
    /\ UNCHANGED <<is_loaded, pipeline, init_calls, calls, frameFixed>>

\* The picture stored at a path when the classifier opens it.
FileAt(path) ==
    IF path = GeneratedPath THEN generated_file
    ELSE IF path = InputPath THEN UserImage
    ELSE NoImage

\* ImageClassificationModel.run, lines 120-121
ClsRunInvoke(w) ==
    /\ InFrame(w, "run", "invoke")
    /\ Top(w).model = CLS
    /\ \/ /\ pipeline[CLS] = NoPipeline
          /\ Raise(w, "'NoneType' object is not callable")
          /\ UNCHANGED <<ret, returned>>
       \/ /\ pipeline[CLS] # NoPipeline
          /\ Raise(w, "classification failed")
          /\ UNCHANGED <<ret, returned>>
       \/ /\ pipeline[CLS] # NoPipeline
          /\ FileAt(Top(w).arg) # NoImage
          /\ ReturnValue(w, [py |-> "dict", keys |-> <<"type", "results">>,
                             type |-> "classifications",
                             results |-> Classify(FileAt(Top(w).arg))],
                         FileAt(Top(w).arg))
    /\ UNCHANGED <<adapterVars, calls, frameFixed>>

AdapterStep(w) ==
    \/ T2ILoadCheck(w) \/ T2ILoadInit(w) \/ T2ILoadTo(w) \/ T2ILoadStore(w)
    \/ T2ILoadFlag(w)
    \/ ClsLoadCheck(w) \/ ClsLoadInit(w) \/ ClsLoadFlag(w)
    \/ RunCheck(w) \/ T2IRunInvoke(w) \/ T2IRunSave(w) \/ ClsRunInvoke(w)

\* ------------------------------------------------------------ workers
\* Left alone by every step of a thread function.
threadFixed == <<device, diffusers, adapterVars, task, nthreads, ret,
                 returned, failed, poll_scheduled, poll_running, tick_start,
                 tick_log, dispatched>>

AtThread(w, label) ==
    /\ call[w] = <<>>
    /\ pc[w] = label

NoPut == UNCHANGED <<result_queue, pushed, tick_pushed>>

\* _load_model_thread, lines 242-243
LoadModelCall(w) ==
    /\ AtThread(w, "lm_load")
    /\ CallAdapter(w, "load", task[w].name, device, "")
    /\ pc' = [pc EXCEPT ![w] = "lm_put"]
    /\ NoPut
    /\ UNCHANGED <<locals, threadFixed>>

\* _load_model_thread, line 244
LoadModelPut(w) ==
    /\ AtThread(w, "lm_put")
    /\ Put(w, "load_ok", <<task[w].name, " loaded.">>)
    /\ pc' = [pc EXCEPT ![w] = "done"]
    /\ UNCHANGED <<call, calls, locals, threadFixed>>

\* _load_model_thread, lines 245-246
LoadModelExcept(w) ==
    /\ AtThread(w, "lm_except")
    /\ Put(w, "error", <<"Error loading ", task[w].name, ": ", locals[w].exc>>)
    /\ pc' = [pc EXCEPT ![w] = "done"]
    /\ UNCHANGED <<call, calls, locals, threadFixed>>

\* f"Errors while loading: {errors}", errors a list of (name, str(e)) pairs
RECURSIVE ErrorsText(_)
ErrorsText(errors) ==
    IF errors = <<>> THEN <<>>
    ELSE <<Head(errors).name, Head(errors).exc>> \o ErrorsText(Tail(errors))

\* An aggregate message that reports the first failure only.
LoadAllMessage_first(errors) == <<"Errors while loading: ">> \o ErrorsText(<<Head(errors)>>)

LoadAllMessage(errors) == <<"Errors while loading: ">> \o ErrorsText(errors)

\* _load_all_thread, lines 250-252: the next adapter of self._models.items()
LoadAllCall(w) ==
    /\ AtThread(w, "la_loop")
    /\ locals[w].idx <= Len(Registry)
    /\ CallAdapter(w, "load", Registry[locals[w].idx], device, "")
    /\ pc' = [pc EXCEPT ![w] = "la_put"]
    /\ NoPut
    /\ UNCHANGED <<locals, threadFixed>>

\* _load_all_thread, line 253
LoadAllPut(w) ==
    /\ AtThread(w, "la_put")
    /\ Put(w, "load_ok", <<Registry[locals[w].idx], " loaded.">>)
    /\ locals' = [locals EXCEPT ![w].idx = @ + 1]
    /\ pc' = [pc EXCEPT ![w] = "la_loop"]
    /\ UNCHANGED <<call, calls, threadFixed>>

\* _load_all_thread, lines 254-255
LoadAllExcept(w) ==
    /\ AtThread(w, "la_except")
    /\ locals' = [locals EXCEPT
            ![w].errors = Append(@, [name |-> Registry[locals[w].idx],
                                     exc |-> locals[w].exc]),
            ![w].idx = @ + 1]
    /\ pc' = [pc EXCEPT ![w] = "la_loop"]
    /\ NoPut
    /\ UNCHANGED <<call, calls, threadFixed>>

\* _load_all_thread, lines 256-257, once the loop is exhausted
LoadAllEnd(w) ==
    /\ AtThread(w, "la_loop")
    /\ locals[w].idx > Len(Registry)
    /\ \/ /\ locals[w].errors # <<>>
          /\ Put(w, "error", LoadAllMessage(locals[w].errors))
       \/ /\ locals[w].errors = <<>>
          /\ NoPut
    /\ pc' = [pc EXCEPT ![w] = "done"]
    /\ UNCHANGED <<call, calls, locals, threadFixed>>

\* _run_model_thread, lines 343-345
RunModelCheck(w) ==
    /\ AtThread(w, "rm_check")
    /\ \/ /\ ~is_loaded[task[w].name]
          /\ CallAdapter(w, "load", task[w].name, device, "")
       \/ /\ is_loaded[task[w].name]
          /\ UNCHANGED <<call, calls>>
    /\ pc' = [pc EXCEPT ![w] = "rm_run"]
    /\ NoPut
    /\ UNCHANGED <<locals, threadFixed>>

\* _run_model_thread, line 346
RunModelRun(w) ==
    /\ AtThread(w, "rm_run")
    /\ CallAdapter(w, "run", task[w].name, "", task[w].input)
    /\ pc' = [pc EXCEPT ![w] = "rm_put"]
    /\ NoPut
    /\ UNCHANGED <<locals, threadFixed>>

\* The run_result payload of _run_model_thread, line 347
RunPayload(model_name, res) == [model |-> model_name, result |-> res]

\* _run_model_thread, line 347
RunModelPut(w) ==
    /\ AtThread(w, "rm_put")
    /\ Put(w, "run_result", RunPayload(task[w].name, ret[w]))
    /\ pc' = [pc EXCEPT ![w] = "done"]
    /\ UNCHANGED <<call, calls, locals, threadFixed>>

\* _run_model_thread, lines 348-349
RunModelExcept(w) ==
    /\ AtThread(w, "rm_except")
    /\ Put(w, "error", <<"Error running ", task[w].name, ": ", locals[w].exc>>)
    /\ pc' = [pc EXCEPT ![w] = "done"]
    /\ UNCHANGED <<call, calls, locals, threadFixed>>

\* _chain_text_to_image_then_classify, lines 299-302
ChainCheck1(w) ==
    /\ AtThread(w, "ch_check1")
    /\ \/ /\ ~is_loaded[T2I]
          /\ CallAdapter(w, "load", T2I, device, "")
       \/ /\ is_loaded[T2I]
          /\ UNCHANGED <<call, calls>>
    /\ pc' = [pc EXCEPT ![w] = "ch_run1"]
    /\ NoPut
    /\ UNCHANGED <<locals, threadFixed>>

\* _chain_text_to_image_then_classify, line 303
ChainRun1(w) ==
    /\ AtThread(w, "ch_run1")
    /\ CallAdapter(w, "run", T2I, "", task[w].input)
    /\ pc' = [pc EXCEPT ![w] = "ch_check2"]
    /\ NoPut
    /\ UNCHANGED <<locals, threadFixed>>

\* _chain_text_to_image_then_classify, lines 305-308: cls.load() takes the
\* default device
ChainCheck2(w) ==
    /\ AtThread(w, "ch_check2")
    /\ locals' = [locals EXCEPT ![w].img_path = ret[w].path]
    /\ \/ /\ ~is_loaded[CLS]
          /\ CallAdapter(w, "load", CLS, "cpu", "")
       \/ /\ is_loaded[CLS]
          /\ UNCHANGED <<call, calls>>
    /\ pc' = [pc EXCEPT ![w] = "ch_run2"]
    /\ NoPut
    /\ UNCHANGED threadFixed

\* _chain_text_to_image_then_classify, line 309
ChainRun2(w) ==
    /\ AtThread(w, "ch_run2")
    /\ CallAdapter(w, "run", CLS, "", locals[w].img_path)
    /\ pc' = [pc EXCEPT ![w] = "ch_put"]
    /\ NoPut
    /\ UNCHANGED <<locals, threadFixed>>

\* A chain payload that carries the file name instead of the returned path.
ChainPayload_relative(img_path, cls_res) ==
    [image_path |-> "generated_image.png", classifications |-> cls_res]

\* The chain payload of line 310: cls_res is the dict cls.run returned
ChainPayload(img_path, cls_res) == [image_path |-> img_path, classifications |-> cls_res]

\* _chain_text_to_image_then_classify, line 310
ChainPut(w) ==
    /\ AtThread(w, "ch_put")
    /\ Put(w, "chain", ChainPayload(locals[w].img_path, ret[w]))
    /\ pc' = [pc EXCEPT ![w] = "done"]
    /\ UNCHANGED <<call, calls, locals, threadFixed>>

\* _chain_text_to_image_then_classify, lines 311-312
ChainExcept(w) ==
    /\ AtThread(w, "ch_except")
    /\ Put(w, "error", <<"Chain error: ", locals[w].exc>>)
    /\ pc' = [pc EXCEPT ![w] = "done"]
    /\ UNCHANGED <<call, calls, locals, threadFixed>>

ThreadStep(w) ==
    \/ LoadModelCall(w) \/ LoadModelPut(w) \/ LoadModelExcept(w)
    \/ LoadAllCall(w) \/ LoadAllPut(w) \/ LoadAllExcept(w) \/ LoadAllEnd(w)
    \/ RunModelCheck(w) \/ RunModelRun(w) \/ RunModelPut(w) \/ RunModelExcept(w)
    \/ ChainCheck1(w) \/ ChainRun1(w) \/ ChainCheck2(w) \/ ChainRun2(w)
    \/ ChainPut(w) \/ ChainExcept(w)

Init ==
    /\ device \in Devices
    /\ diffusers \in BOOLEAN
    /\ is_loaded = [m \in ModelNames |-> FALSE]
    /\ pipeline = [m \in ModelNames |-> NoPipeline]
    /\ init_calls = [m \in ModelNames |-> 0]
    /\ generated_file = NoImage
    /\ task = [w \in Workers |-> NoTask]
    /\ pc = [w \in Workers |-> "idle"]
    /\ call = [w \in Workers |-> <<>>]
    /\ locals = [w \in Workers |-> NoLocals]
    /\ ret = [w \in Workers |-> NoFrameValue]
    /\ calls = [w \in Workers |-> <<>>]
    /\ returned = [w \in Workers |-> <<>>]
    /\ failed = [w \in Workers |-> <<>>]
    /\ pushed = [w \in Workers |-> <<>>]
    /\ nthreads = 0
    /\ result_queue = <<>>
    /\ poll_scheduled = TRUE
    /\ poll_running = FALSE
    /\ tick_start = <<>>
    /\ tick_log = <<>>
    /\ tick_pushed = FALSE
    /\ dispatched = <<>>
\* ------------------------------------------------------------ UI thread
\* Left alone by a button callback.
uiFixed == <<device, diffusers, adapterVars, call, ret, calls, returned,
             failed, pushed, result_queue, tick_pushed, poll_scheduled,
             poll_running, tick_start, tick_log, dispatched>>

\* The UI thread is free to run a callback: no other callback (the poll tick)
\* is executing.
UIIdle == ~poll_running

\* threading.Thread(target=..., args=..., daemon=True).start()
StartThread(kind, name, input, label) ==
    /\ nthreads < MaxWorkers
    /\ nthreads' = nthreads + 1
    /\ task' = [task EXCEPT ![nthreads + 1] = [kind |-> kind, name |-> name, input |-> input]]
    /\ pc' = [pc EXCEPT ![nthreads + 1] = label]
    /\ UNCHANGED <<locals, uiFixed>>

\* What Browse can have stored in _selected_input_path ("" when unset).
SelectedPaths == {"", InputPath, GeneratedPath}

\* os.path.exists
path_exists(p) == FileAt(p) # NoImage

\* _gather_input_for_model; "" stands for None
gather_input_for_model(model_name, text, selected_input_path) ==
    IF model_name = T2I THEN text
    ELSE IF model_name = CLS
         THEN IF selected_input_path # "" THEN selected_input_path
              ELSE IF path_exists(text) THEN text ELSE ""
    ELSE ""

\* load_selected_model
load_selected_model ==
    /\ UIIdle
    /\ \E name \in ModelNames : StartThread("loadOne", name, "", "lm_load")

\* load_all_models
load_all_models ==
    /\ UIIdle
    /\ StartThread("loadAll", "", "", "la_loop")

\* run_selected_model
run_selected_model ==
    /\ UIIdle
    /\ \E name \in ModelNames, text \in Prompts, path \in SelectedPaths :
          LET input_payload == gather_input_for_model(name, text, path)
          IN  /\ input_payload # ""
              /\ StartThread("runOne", name, input_payload, "rm_check")

\* alt_name = [n for n in self._models.keys() if n != selected][0]
alt_name(selected) ==
    LET others == SelectSeq(Registry, LAMBDA n : n # selected) IN others[1]

\* run_alternate_model
run_alternate_model ==
    /\ UIIdle
    /\ \E selected \in ModelNames, text \in Prompts, path \in SelectedPaths :
          \/ /\ selected = T2I
             /\ text # ""
             /\ StartThread("chain", "", text, "ch_check1")
          \/ /\ selected # T2I
             /\ LET input_payload == gather_input_for_model(alt_name(selected), text, path)
                IN  /\ input_payload # ""
                    /\ StartThread("runOne", alt_name(selected), input_payload, "rm_check")

\* ------------------------------------------------------------ poller
\* `for r in x`: a list yields its items, a dict yields its keys.
PyIter(x) ==
    IF x.py = "dict" THEN [i \in 1..Len(x.keys) |-> PyStr(x.keys[i])]
    ELSE x.items

\* r.get(...) exists on a dict and raises AttributeError on a str.
HasGet(r) == r.py = "dict"

\* The loop `for r in ...: lines.append(f"- {r.get('label')}: {r.get('score'):.3f}")`
\* of both handlers: the entries it has formatted, and whether it raised.
RECURSIVE FormatEntries(_)
FormatEntries(rs) ==
    IF rs = <<>> THEN [raised |-> FALSE, entries |-> <<>>]
    ELSE IF ~HasGet(Head(rs)) THEN [raised |-> TRUE, entries |-> <<>>]
    ELSE LET rest == FormatEntries(Tail(rs))
         IN  [raised |-> rest.raised,
              entries |-> <<[label |-> Head(rs).label, score |-> Head(rs).score]>>
                          \o rest.entries]

\* _handle_model_result: _display_image catches its own exceptions
handle_model_result(payload) ==
    IF payload.result.type = "image"
    THEN [raised |-> FALSE, image |-> payload.result.path, entries |-> <<>>]
    ELSE IF payload.result.type = "classifications"
    THEN LET f == FormatEntries(PyIter(payload.result.results))
         IN  [raised |-> f.raised, image |-> "", entries |-> f.entries]
    ELSE [raised |-> FALSE, image |-> "", entries |-> <<>>]

\* _handle_chain_result: the loop runs over payload["classifications"]
handle_chain_result(payload) ==
    LET f == FormatEntries(PyIter(payload.classifications))
    IN  [raised |-> f.raised, image |-> payload.image_path, entries |-> f.entries]

\* An if/elif chain whose error branch ends in the load_ok branch's handler.
Dispatch_misrouted(o) ==
    IF o.kind = "run_result"
    THEN [handler |-> "_handle_model_result"] @@ handle_model_result(o.payload)
    ELSE IF o.kind = "chain"
    THEN [handler |-> "_handle_chain_result"] @@ handle_chain_result(o.payload)
    ELSE [handler |-> "_refresh_model_info", raised |-> FALSE, image |-> "", entries |-> <<>>]

\* The if/elif chain of _poll_results: the handler an outcome goes to and
\* what that handler does with it.
Dispatch(o) ==
    IF o.kind = "load_ok"
    THEN [handler |-> "_refresh_model_info", raised |-> FALSE, image |-> "", entries |-> <<>>]
    ELSE IF o.kind = "run_result"
    THEN [handler |-> "_handle_model_result"] @@ handle_model_result(o.payload)
    ELSE IF o.kind = "chain"
    THEN [handler |-> "_handle_chain_result"] @@ handle_chain_result(o.payload)
    ELSE IF o.kind = "error"
    THEN [handler |-> "showerror", raised |-> FALSE, image |-> "", entries |-> <<>>]
    ELSE [handler |-> "", raised |-> FALSE, image |-> "", entries |-> <<>>]

\* Whether _poll_results reaches its last line, self.after(200, ...), after
\* the handler of an outcome ended: an exception other than queue.Empty
\* leaves the function before it.
Reschedules(raised) == ~raised

pollFixed == <<device, diffusers, adapterVars, workerVars>>

\* A queue that hands out its newest item first.
get_nowait_lifo(q) == [item |-> q[Len(q)], rest |-> SubSeq(q, 1, Len(q) - 1)]

\* queue.Queue.get_nowait on a non-empty queue: the oldest item leaves.
get_nowait(q) == [item |-> Head(q), rest |-> Tail(q)]

\* The Tk timer fires: _poll_results starts on the UI thread.
PollBegin ==
    /\ poll_scheduled
    /\ ~poll_running
    /\ poll_scheduled' = FALSE
    /\ poll_running' = TRUE
    /\ tick_start' = result_queue
    /\ tick_log' = <<>>
    /\ tick_pushed' = FALSE
    /\ UNCHANGED <<result_queue, dispatched, pollFixed>>

\* One turn of `while True`: get_nowait returns an outcome, its handler runs.
PollGet ==
    /\ poll_running
    /\ result_queue # <<>>
    /\ LET o == get_nowait(result_queue).item
           d == Dispatch(o)
       IN  /\ result_queue' = get_nowait(result_queue).rest
           /\ dispatched' = Append(dispatched, [outcome |-> o] @@ d)
           /\ \/ /\ ~d.raised
                 /\ tick_log' = Append(tick_log, [outcome |-> o, handler |-> d.handler])
                 /\ UNCHANGED <<poll_running, poll_scheduled, tick_start, tick_pushed>>
              \/ /\ d.raised
                 /\ poll_running' = FALSE
                 /\ poll_scheduled' = Reschedules(d.raised)
                 /\ tick_start' = <<>>
                 /\ tick_log' = <<>>
                 /\ tick_pushed' = FALSE
    /\ UNCHANGED pollFixed

\* get_nowait raises queue.Empty: the loop ends and the next tick is scheduled.
PollEmpty ==
    /\ poll_running
    /\ result_queue = <<>>
    /\ poll_running' = FALSE
    /\ poll_scheduled' = Reschedules(FALSE)
    /\ tick_start' = <<>>
    /\ tick_log' = <<>>
    /\ tick_pushed' = FALSE
    /\ UNCHANGED <<result_queue, dispatched, pollFixed>>

\* ------------------------------------------------------------ specification
Worker == \E w \in Workers : AdapterStep(w) \/ ThreadStep(w)

UI == load_selected_model \/ load_all_models \/ run_selected_model
      \/ run_alternate_model

Poll == PollBegin \/ PollGet \/ PollEmpty

Next == Worker \/ UI \/ Poll

Spec == Init /\ [][Next]_vars
\* ------------------------------------------------------------ adapter contract
\* The adapters used on their own, as their public interface allows
\* (BaseModel.load, BaseModel.run): each thread makes one call of load, with
\* any device, or of run, with a prompt or an image path, on an adapter in
\* whatever state the earlier calls left it.
RunInputs(m) == IF m = T2I THEN Prompts \ {""} ELSE {InputPath, GeneratedPath}

\* a thread whose body is model.load(device)
call_load ==
    \E m \in ModelNames, dev \in Devices : StartThread("callLoad", m, dev, "dc_call")

\* a thread whose body is model.run(input_data)
call_run ==
    \E m \in ModelNames : \E input \in RunInputs(m) :
        StartThread("callRun", m, input, "dc_call")

\* the thread enters the adapter method
DirectCall(w) ==
    /\ AtThread(w, "dc_call")
    /\ \/ /\ task[w].kind = "callLoad"
          /\ CallAdapter(w, "load", task[w].name, task[w].input, "")
       \/ /\ task[w].kind = "callRun"
          /\ CallAdapter(w, "run", task[w].name, "", task[w].input)
    /\ pc' = [pc EXCEPT ![w] = "dc_returned"]
    /\ NoPut
    /\ UNCHANGED <<locals, threadFixed>>

AdapterNext ==
    \/ call_load
    \/ call_run
    \/ \E w \in Workers : DirectCall(w) \/ AdapterStep(w)

AdapterSpec == Init /\ [][AdapterNext]_vars

\* ------------------------------------------------------------ claims
Kinds(q) == [i \in 1..Len(q) |-> q[i].kind]
Models(cs) == [i \in 1..Len(cs) |-> cs[i].model]
Finished(w, kind) == task[w].kind = kind /\ pc[w] = "done"

\* C1: while the window is alive a future poll tick is always pending: a tick
\* is either running or scheduled, whatever outcomes the last tick dispatched.
C1_PollAlwaysPending == poll_scheduled \/ poll_running

\* C2: a chain task in which no adapter call raised has pushed exactly one
\* outcome, a chain result; its image_path is the path the task's
\* text-to-image run returned for the task's prompt, and its classifications
\* is what the classification run of that same path returned.
C2_ChainResult ==
    \A w \in Workers :
        (Finished(w, "chain") /\ failed[w] = <<>>) =>
            /\ Kinds(pushed[w]) = <<"chain">>
            /\ Models(returned[w]) = <<T2I, CLS>>
            /\ returned[w][1].arg = task[w].input
            /\ returned[w][1].value.type = "image"
            /\ pushed[w][1].payload.image_path = returned[w][1].value.path
            /\ returned[w][2].arg = returned[w][1].value.path
            /\ pushed[w][1].payload.classifications = returned[w][2].value

C2_Witness ==
    \E w \in Workers :
        /\ Finished(w, "chain")
        /\ failed[w] = <<>>
        /\ task[w].input = "a cat"
        /\ Len(pushed[w]) = 1
        /\ pushed[w][1].payload.image_path = GeneratedPath

\* C3: a chain task in which an adapter call raised pushes exactly one error
\* and no chain result, and makes no adapter call after the failure; when the
\* failure is in text-to-image, the task never calls the classification
\* adapter.
C3_ChainFailure ==
    \A w \in Workers :
        (task[w].kind = "chain" /\ failed[w] # <<>>) =>
            /\ Len(failed[w]) = 1
            /\ Len(calls[w]) = failed[w][1].ncalls
            /\ \A i \in 1..Len(pushed[w]) : pushed[w][i].kind = "error"
            /\ Len(pushed[w]) <= 1
            /\ pc[w] = "done" => Kinds(pushed[w]) = <<"error">>
            /\ failed[w][1].model = T2I =>
                   \A i \in 1..Len(calls[w]) : calls[w][i].model # CLS

C3_Witness ==
    \E w \in Workers :
        /\ Finished(w, "chain")
        /\ failed[w] # <<>>
        /\ failed[w][1].model = T2I
        /\ Kinds(pushed[w]) = <<"error">>

\* The adapter names in an aggregate message: every second piece after the
\* heading.
RECURSIVE NamesIn(_)
NamesIn(pieces) ==
    IF Len(pieces) < 2 THEN <<>>
    ELSE <<pieces[1]>> \o NamesIn(Tail(Tail(pieces)))

LoadOkNames(q) ==
    LET oks == SelectSeq(q, LAMBDA o : o.kind = "load_ok")
    IN  [i \in 1..Len(oks) |-> oks[i].payload[1]]

Succeeded(w, names) ==
    SelectSeq(names, LAMBDA n : \A i \in 1..Len(failed[w]) : failed[w][i].model # n)

\* C4: a loadAll task calls load on every registered adapter in registry
\* order, also after a failure.  Each time it turns to the next adapter it
\* has already pushed a load_ok for every earlier adapter whose load
\* succeeded and nothing else.  When it ends it has pushed, after those
\* load_ok outcomes, one error naming exactly the adapters whose load raised
\* if there is such an adapter, and no error otherwise.
C4_LoadAll ==
    \A w \in Workers :
        task[w].kind = "loadAll" =>
            LET idx == locals[w].idx
                tried == SubSeq(Registry, 1, idx - 1)
            IN  /\ (pc[w] = "la_loop" \/ (pc[w] = "la_put" /\ call[w] # <<>>)) =>
                       /\ Kinds(pushed[w]) = [i \in 1..Len(pushed[w]) |-> "load_ok"]
                       /\ LoadOkNames(pushed[w]) = Succeeded(w, tried)
                /\ pc[w] = "done" =>
                       /\ Models(calls[w]) = Registry
                       /\ \A i \in 1..Len(calls[w]) : calls[w][i].fn = "load"
                       /\ LoadOkNames(pushed[w]) = Succeeded(w, Registry)
                       /\ IF failed[w] = <<>>
                          THEN Len(pushed[w]) = Len(Registry)
                          ELSE /\ Len(pushed[w]) = Len(Succeeded(w, Registry)) + 1
                               /\ pushed[w][Len(pushed[w])].kind = "error"
                               /\ NamesIn(Tail(pushed[w][Len(pushed[w])].payload))
                                      = Models(failed[w])

C4_Witness ==
    \E w \in Workers :
        /\ Finished(w, "loadAll")
        /\ Models(failed[w]) = <<T2I>>
        /\ Kinds(pushed[w]) = <<"load_ok", "error">>
        /\ pushed[w][1].payload[1] = CLS

\* C5: a loadOne or runOne task makes no adapter call after one of its calls
\* raised, and when it ends it has pushed exactly one outcome: an error if a
\* call raised, otherwise load_ok (loadOne) or a run_result carrying the
\* requested model name and the value the adapter's run returned for the
\* task's input (runOne).
C5_OneOutcome ==
    \A w \in Workers :
        task[w].kind \in {"loadOne", "runOne"} =>
            /\ failed[w] # <<>> =>
                   /\ Len(failed[w]) = 1
                   /\ Len(calls[w]) = failed[w][1].ncalls
                   /\ call[w] = <<>>
            /\ Len(pushed[w]) <= 1
            /\ pc[w] = "done" =>
                   /\ Len(pushed[w]) = 1
                   /\ failed[w] # <<>> => pushed[w][1].kind = "error"
                   /\ (failed[w] = <<>> /\ task[w].kind = "loadOne") =>
                          pushed[w][1].kind = "load_ok"
                   /\ (failed[w] = <<>> /\ task[w].kind = "runOne") =>
                          /\ pushed[w][1].kind = "run_result"
                          /\ pushed[w][1].payload.model = task[w].name
                          /\ Len(returned[w]) = 1
                          /\ returned[w][1].model = task[w].name
                          /\ returned[w][1].arg = task[w].input
                          /\ pushed[w][1].payload.result = returned[w][1].value

C5_Witness ==
    \E v, w \in Workers :
        /\ Finished(v, "runOne")
        /\ failed[v] # <<>>
        /\ Kinds(pushed[v]) = <<"error">>
        /\ Finished(w, "runOne")
        /\ failed[w] = <<>>
        /\ Kinds(pushed[w]) = <<"run_result">>
        /\ pushed[w][1].payload.result.type = "classifications"
\* The handler each tag belongs to.
HandlerOfTag(kind) ==
    CASE kind = "load_ok" -> "_refresh_model_info"
      [] kind = "run_result" -> "_handle_model_result"
      [] kind = "chain" -> "_handle_chain_result"
      [] kind = "error" -> "showerror"

TickEnds == poll_running /\ ~poll_running'

\* C6: a poll tick that begins with an inbox of load_ok, error and run_result
\* outcomes, and during which no worker puts an outcome, ends only after it
\* has handed exactly those outcomes, in inbox order, each to the handler of
\* its tag, and it leaves the inbox empty.
C6_TickDrainsInOrder ==
    [][(/\ TickEnds
        /\ ~tick_pushed
        /\ \A i \in 1..Len(tick_start) :
               tick_start[i].kind \in {"load_ok", "error", "run_result"})
       => (/\ result_queue = <<>>
           /\ result_queue' = <<>>
           /\ [i \in 1..Len(tick_log) |-> tick_log[i].outcome] = tick_start
           /\ \A i \in 1..Len(tick_log) :
                  tick_log[i].handler = HandlerOfTag(tick_log[i].outcome.kind))]_vars

C6_Witness ==
    /\ poll_running
    /\ ~tick_pushed
    /\ result_queue = <<>>
    /\ Kinds(tick_start) = <<"load_ok", "error", "run_result">>
    /\ [i \in 1..Len(tick_log) |-> tick_log[i].outcome] = tick_start

DispatchedOf(w) ==
    LET mine == SelectSeq(dispatched, LAMBDA d : d.outcome.w = w)
    IN  [i \in 1..Len(mine) |-> mine[i].outcome]

\* C7: under every interleaving, the outcomes of one worker that have been
\* dispatched are the first outcomes that worker pushed, in the order it
\* pushed them.
C7_PerWorkerOrder ==
    \A w \in Workers :
        /\ Len(DispatchedOf(w)) <= Len(pushed[w])
        /\ DispatchedOf(w) = SubSeq(pushed[w], 1, Len(DispatchedOf(w)))

\* A loadAll worker's two outcomes dispatched in its order, and between them
\* the outcome of a worker that was started later.
C7_Witness ==
    /\ Len(dispatched) = 3
    /\ task[1].kind = "loadAll"
    /\ [i \in 1..3 |-> dispatched[i].outcome.w] = <<1, 2, 1>>
    /\ [i \in 1..3 |-> dispatched[i].outcome.kind] = <<"load_ok", "run_result", "error">>

\* C8: when a poll tick ends, every outcome that was in the inbox when the
\* tick began has been dispatched.
C8_TickDispatchesAll ==
    [][TickEnds =>
          \A i \in 1..Len(tick_start) :
              \E j \in 1..Len(dispatched') : dispatched'[j].outcome = tick_start[i]]_vars

\* C9: in every state, each adapter's loaded flag is true exactly when its
\* pipeline handle is not None.
C9_LoadedIffPipeline ==
    \A m \in ModelNames : is_loaded[m] <=> (pipeline[m] # NoPipeline)

EntersLoad(w) ==
    /\ call[w] # <<>>
    /\ Top(w).fn = "load"
    /\ Top(w).pc = "check"
    /\ call'[w] # call[w]

\* C10: a load call that starts on a loaded adapter, with whatever device,
\* returns at once: the adapter stays loaded, its pipeline handle is the same
\* object and the underlying initialization is not invoked.  No step takes an
\* adapter from loaded to not loaded.
C10_LoadIdempotent ==
    [][/\ \A w \in Workers :
              (EntersLoad(w) /\ is_loaded[Top(w).model]) =>
                  /\ call'[w] = Tail(call[w])
                  /\ is_loaded' = is_loaded
                  /\ pipeline' = pipeline
                  /\ init_calls' = init_calls
       /\ \A m \in ModelNames : is_loaded[m] => is_loaded'[m]]_vars

\* Two loadOne tasks of one adapter have both returned from load without
\* raising, and the adapter was initialized once, on another device than the
\* default: the second call was the no-op.
C10_Witness ==
    \E m \in ModelNames :
        /\ device = "cuda"
        /\ \A w \in Workers :
               /\ task[w] = [kind |-> "loadOne", name |-> m, input |-> ""]
               /\ pc[w] \in {"lm_put", "done"}
               /\ call[w] = <<>>
               /\ failed[w] = <<>>
        /\ init_calls[m] = 1
        /\ is_loaded[m]
        /\ pipeline[m].id = 1

RunEnters(w) == InFrame(w, "run", "check") /\ call'[w] # call[w]

\* C11: a run that starts on an adapter that is not loaded calls load with
\* device "cpu" on that adapter before anything else; a run that starts on a
\* loaded adapter calls no load.  The pipeline is invoked, and a result is
\* returned, only with the adapter's loaded flag true.
C11_RunLoadsFirst ==
    [][/\ \A w \in Workers :
              /\ (RunEnters(w) /\ ~is_loaded[Top(w).model]) =>
                     /\ Len(call'[w]) = Len(call[w]) + 1
                     /\ call'[w][1] = Frame("load", Top(w).model, "cpu", "")
                     /\ call'[w][2] = [Top(w) EXCEPT !.pc = "invoke"]
                     /\ calls'[w] = Append(calls[w], [fn |-> "load", model |-> Top(w).model,
                                                      arg |-> ""])
              /\ (RunEnters(w) /\ is_loaded[Top(w).model]) =>
                     /\ call'[w] = <<[Top(w) EXCEPT !.pc = "invoke"]>> \o Tail(call[w])
                     /\ calls'[w] = calls[w]
              /\ (call'[w] # <<>> /\ call'[w][1].fn = "run" /\ call'[w][1].pc # "check") =>
                     is_loaded'[call'[w][1].model]
              /\ Len(returned'[w]) > Len(returned[w]) =>
                     is_loaded'[returned'[w][Len(returned'[w])].model]]_vars

\* A run called on an adapter nobody had loaded has returned a result after
\* its own load("cpu"), the process's device being another one.
C11_Witness ==
    \E w \in Workers :
        /\ device = "cuda"
        /\ task[w].kind = "callRun"
        /\ pc[w] = "dc_returned"
        /\ call[w] = <<>>
        /\ Len(returned[w]) = 1
        /\ Models(calls[w]) = <<task[w].name, task[w].name>>
        /\ calls[w][2].fn = "load"
        /\ init_calls[task[w].name] = 1
        /\ pipeline[task[w].name].dtype = "float32"
        /\ is_loaded[task[w].name]

\* Worker v is inside load of adapter m, past the loaded check and before
\* the return.
InLoadBody(v, m) ==
    /\ call[v] # <<>>
    /\ Top(v).fn = "load"
    /\ Top(v).model = m
    /\ Top(v).pc \in {"init", "to", "store", "flag"}

PassesLoadCheck(w) ==
    /\ T2ILoadCheck(w) \/ ClsLoadCheck(w)
    /\ call'[w] # <<>>
    /\ call'[w][1].pc = "init"

\* C12: load calls on one adapter are not mutually excluded: while a worker
\* is inside load of an adapter that is not yet flagged loaded, any other
\* worker that reaches the loaded check of the same adapter is free to pass
\* it and go on to the underlying initialization.
C12_LoadNotExcluded ==
    \A m \in ModelNames : \A v, w \in Workers :
        (/\ v # w
         /\ InLoadBody(v, m)
         /\ InFrame(w, "load", "check")
         /\ Top(w).model = m
         /\ ~is_loaded[m])
        => ENABLED PassesLoadCheck(w)

\* A loadAll and a runOne are both inside load of text-to-image, the flag is
\* still false, and the underlying initialization has been invoked twice.
C12_Witness ==
    /\ {task[1].kind, task[2].kind} = {"loadAll", "runOne"}
    /\ InLoadBody(1, T2I)
    /\ InLoadBody(2, T2I)
    /\ ~is_loaded[T2I]
    /\ init_calls[T2I] = 2
    /\ failed[1] = <<>>
    /\ failed[2] = <<>>

\* The {label, score} entries of a classifier's result list, in its order.
EntriesOf(results) ==
    [i \in 1..Len(results.items) |->
        [label |-> results.items[i].label, score |-> results.items[i].score]]

\* C13: for every chain result that is dispatched, the chain handler formats
\* exactly the {label, score} entries the classifier returned, in the same
\* order and with the same values, and does not raise.
C13_ChainEntriesSurvive ==
    \A i \in 1..Len(dispatched) :
        dispatched[i].outcome.kind = "chain" =>
            /\ ~dispatched[i].raised
            /\ dispatched[i].entries
                   = EntriesOf(dispatched[i].outcome.payload.classifications.results)

\* C14: for every chain result, the image the classification stage read is
\* the image the text-to-image stage of the same task generated from the
\* task's prompt.
C14_ChainClassifiesOwnImage ==
    \A w \in Workers :
        (Finished(w, "chain") /\ failed[w] = <<>>) =>
            /\ returned[w][1].image = [prompt |-> task[w].input, by |-> w]
            /\ returned[w][2].image = returned[w][1].image
====
